---- MODULE Spec2Model ----
(***************************************************************************)
(* Model of the theme injector (aplicar_tema_automatico.py) and of the     *)
(* formatting fixer (arreglar_formato.py).                                 *)
(*                                                                         *)
(* A file is a sequence of tokens.  Each token stands for a piece of text  *)
(* that the scripts' patterns treat as a unit:                             *)
(*   "CDN"   cdn.tailwindcss.com                                           *)
(*   "MAT"   Material+Symbols+Outlined                                     *)
(*   "REL"   rel="stylesheet" followed by optional blanks, optional / and >*)
(*   "ESCR"  </script>        "ESCRU"  </SCRIPT>                           *)
(*   "EBODY" </body>          "EBODYU" </BODY>                             *)
(*   "SCR"   <script                                                       *)
(*   "RM"    fragments/theme :: themeResources                             *)
(*   "TR"    themeResources   (without the fragments/theme :: prefix)      *)
(*   "SM"    fragments/theme :: themeScript                                *)
(*   "RC"    }"></div>                                                     *)
(*   "DIVO"  <div th:replace="~{                                           *)
(*   "CMTR"  <!-- Sistema de Temas (Modo Claro/Oscuro) -->                 *)
(*   "CMTS"  <!-- Script del Sistema de Temas -->                          *)
(*   "SP"    one space     "LF"  \n     "CR"  \r                           *)
(*   "X"     any other text without blanks and without the patterns above  *)
(***************************************************************************)
EXTENDS Integers, Sequences, FiniteSets, TLC

(***************************************************************************)
(* Patterns and snippets                                                   *)
(***************************************************************************)
TAILWIND_PATTERN == "CDN"
THEME_RESOURCES_PATTERN == "RM"
THEME_SCRIPT_PATTERN == "SM"

THEME_RESOURCES ==
    <<"SP", "SP", "SP", "SP", "CMTR", "LF",
      "SP", "SP", "SP", "SP", "DIVO", "RM", "RC">>

THEME_SCRIPT ==
    <<"LF", "SP", "SP", "SP", "SP", "CMTS", "LF",
      "SP", "SP", "SP", "SP", "DIVO", "SM", "RC">>

\* \s of the re module on str patterns (the blanks that occur in the model)
IsSpace(t) == t \in {"SP", "LF", "CR"}

\* </script> and </body> under re.IGNORECASE
IsScriptClose(t) == t \in {"ESCR", "ESCRU"}
IsBodyClose(t) == t \in {"EBODY", "EBODYU"}

\* themeResources as the fixer's patterns see it: the end of either token
IsThemeResources(t) == t \in {"RM", "TR"}

(***************************************************************************)
(* Sequence helpers                                                        *)
(***************************************************************************)
Slice(s, a, b) == [i \in 1..(b - a + 1) |-> s[a + i - 1]]

\* content[:n] and content[n:] of Python, n a 0-based offset
Prefix(s, n) == Slice(s, 1, n)
Suffix(s, n) == Slice(s, n + 1, Len(s))

\* pattern in content, for a one-token pattern
Contains(s, t) == \E i \in 1..Len(s) : s[i] = t

\* offset just past the run of blanks that starts at 0-based offset n
RECURSIVE SkipSpace(_, _)
SkipSpace(s, n) ==
    IF n < Len(s) /\ IsSpace(s[n + 1]) THEN SkipSpace(s, n + 1) ELSE n

(***************************************************************************)
(* Text-mode file I/O: open(path, 'r') and open(path, 'w') without newline=*)
(***************************************************************************)
\* reading translates \r\n and a lone \r to \n
RECURSIVE ReadText(_)
ReadText(bytes) ==
    IF bytes = <<>> THEN <<>>
    ELSE IF Head(bytes) = "CR"
         THEN IF Len(bytes) >= 2 /\ bytes[2] = "LF"
              THEN <<"LF">> \o ReadText(Suffix(bytes, 2))
              ELSE <<"LF">> \o ReadText(Tail(bytes))
         ELSE <<Head(bytes)>> \o ReadText(Tail(bytes))

\* os.linesep of the platform the script runs on
LineSep(os) == IF os = "nt" THEN <<"CR", "LF">> ELSE <<"LF">>

\* writing translates every \n to os.linesep
RECURSIVE WriteText(_, _)
WriteText(content, os) ==
    IF content = <<>> THEN <<>>
    ELSE (IF Head(content) = "LF" THEN LineSep(os) ELSE <<Head(content)>>)
         \o WriteText(Tail(content), os)

(***************************************************************************)
(* The injector's pattern searches                                         *)
(***************************************************************************)
\* re.search(TAILWIND_PATTERN, content)
HasTailwind(content) == Contains(content, TAILWIND_PATTERN)

\* re.search(r'(Material\+Symbols\+Outlined.*?rel="stylesheet"\s*/?>\s*)',
\*           content, re.DOTALL): material_match.end(), or 0 without a match.
\* The match starts at the first MAT that has a REL after it, runs to the
\* first REL after that MAT (.*? is lazy) and takes every blank that follows.
MaterialEnd(content) ==
    LET starts == {i \in 1..Len(content) :
                       /\ content[i] = "MAT"
                       /\ \E j \in (i + 1)..Len(content) : content[j] = "REL"}
    IN  IF starts = {} THEN 0
        ELSE LET i == CHOOSE x \in starts : \A y \in starts : x <= y
                 j == CHOOSE x \in (i + 1)..Len(content) :
                          /\ content[x] = "REL"
                          /\ \A y \in (i + 1)..(x - 1) : content[y] # "REL"
             IN  SkipSpace(content, j)

\* the places where (</script>\s*)(</body>) matches: i is the index of the
\* closing script tag, the closing body tag follows the blanks after it
BodyMatches(content) ==
    {i \in 1..Len(content) :
        /\ IsScriptClose(content[i])
        /\ SkipSpace(content, i) < Len(content)
        /\ IsBodyClose(content[SkipSpace(content, i) + 1])}

\* re.search(r'(</script>\s*)(</body>)', content, re.DOTALL | re.IGNORECASE):
\* body_match.start(2) of the match re.search returns (the leftmost one),
\* or -1 without a match
BodyStart(content) ==
    IF BodyMatches(content) = {} THEN -1
    ELSE LET i == CHOOSE x \in BodyMatches(content) :
                      \A y \in BodyMatches(content) : x <= y
         IN  SkipSpace(content, i)

(***************************************************************************)
(* update_html_file on the text read from the file                         *)
(***************************************************************************)
\* step 1: the snippet goes in after the Material Icons link
AddResources(content) ==
    IF MaterialEnd(content) # 0
    THEN Prefix(content, MaterialEnd(content)) \o <<"LF">> \o THEME_RESOURCES
         \o <<"LF">> \o Suffix(content, MaterialEnd(content))
    ELSE content

\* step 2 attempted whether or not the script marker is there
CanAddScriptNoGuard(content) == BodyStart(content) # -1

\* step 2 is attempted and finds its place: the script marker is absent and
\* the body pattern matches
CanAddScript(content) ==
    ~Contains(content, THEME_SCRIPT_PATTERN) /\ BodyStart(content) # -1

\* step 2: the snippet goes in before </body>
AddScript(content) ==
    IF CanAddScript(content)
    THEN Prefix(content, BodyStart(content)) \o THEME_SCRIPT
         \o <<"LF", "SP", "SP">> \o Suffix(content, BodyStart(content))
    ELSE content

\* update_html_file without the up-front check for the resource marker
UpdateTextNoSkip(content) ==
    LET modified == \/ MaterialEnd(content) # 0
                    \/ CanAddScript(AddResources(content))
    IN  [text |-> AddScript(AddResources(content)),
         report |-> IF modified THEN "updated" ELSE "nomod"]

\* the text update_html_file ends with, and what it reports:
\*   "present"  skipped up front, the resource marker is there
\*   "nomod"    skipped, nothing could be modified
\*   "updated"  at least one insertion, the text is to be saved
UpdateText(content) ==
    IF Contains(content, THEME_RESOURCES_PATTERN)
    THEN [text |-> content, report |-> "present"]
    ELSE LET modified == \/ MaterialEnd(content) # 0
                         \/ CanAddScript(AddResources(content))
         IN  [text |-> AddScript(AddResources(content)),
              report |-> IF modified THEN "updated" ELSE "nomod"]

\* update_html_file with the return left out of the up-front skip: None
ResultOfNoReturn(report) ==
    CASE report = "updated" -> "updated"
      [] report = "present" -> "None"
      [] report = "nomod" -> "skipped"
      [] report = "error" -> "error"

\* the return value of update_html_file for a report
ResultOf(report) ==
    CASE report = "updated" -> "updated"
      [] report \in {"present", "nomod"} -> "skipped"
      [] report = "error" -> "error"

(***************************************************************************)
(* The fixer's pattern searches                                            *)
(***************************************************************************)
\* 'themeResources}"></div>\n<script' in content, or the \r\n variant
HasAdjacency(content) ==
    \/ \E i \in 1..(Len(content) - 3) :
          /\ IsThemeResources(content[i]) /\ content[i + 1] = "RC"
          /\ content[i + 2] = "LF" /\ content[i + 3] = "SCR"
    \/ \E i \in 1..(Len(content) - 4) :
          /\ IsThemeResources(content[i]) /\ content[i + 1] = "RC"
          /\ content[i + 2] = "CR" /\ content[i + 3] = "LF"
          /\ content[i + 4] = "SCR"

\* (themeResources}"></div>)\s*\n\s*(<script) matches at index i: the blanks
\* after the closing tag hold a \n and <script follows them
SubMatchesAt(content, i) ==
    /\ i + 1 <= Len(content)
    /\ IsThemeResources(content[i]) /\ content[i + 1] = "RC"
    /\ SkipSpace(content, i + 1) < Len(content)
    /\ content[SkipSpace(content, i + 1) + 1] = "SCR"
    /\ \E k \in (i + 2)..SkipSpace(content, i + 1) : content[k] = "LF"

\* re.sub(r'(themeResources}"></div>)\s*\n\s*(<script)', r'\1\n    \2',
\*        content) from index i on: every match, left to right
RECURSIVE SubFrom(_, _)
SubFrom(content, i) ==
    IF i > Len(content) THEN <<>>
    ELSE IF SubMatchesAt(content, i)
         THEN <<content[i], "RC", "LF", "SP", "SP", "SP", "SP", "SCR">>
              \o SubFrom(content, SkipSpace(content, i + 1) + 2)
         ELSE <<content[i]>> \o SubFrom(content, i + 1)

\* the substitution with \1 left out of the replacement
RECURSIVE SubFromDropsTag(_, _)
SubFromDropsTag(content, i) ==
    IF i > Len(content) THEN <<>>
    ELSE IF SubMatchesAt(content, i)
         THEN <<"LF", "SP", "SP", "SP", "SP", "SCR">>
              \o SubFromDropsTag(content, SkipSpace(content, i + 1) + 2)
         ELSE <<content[i]>> \o SubFromDropsTag(content, i + 1)

FixTextDropsTag(content) == SubFromDropsTag(content, 1)

\* the substitution applied to the whole text
FixText(content) == SubFrom(content, 1)

(***************************************************************************)
(* Bounds and the file trees the scripts are run on                        *)
(***************************************************************************)
\* runs of either script in one behaviour
MaxRuns == 3

\* I/O exceptions raised in one behaviour (SpecIO)
MaxFaults == 2

\* the .html files under PROJECT_PATH, in the order os.walk yields them
Walk == <<"a.html", "b.html", "c.html">>
Files == {Walk[i] : i \in 1..Len(Walk)}

\* the line break the files of a tree were saved with
Styles == {"LF", "CRLF", "CR"}
Brk(style) ==
    CASE style = "LF" -> <<"LF">>
      [] style = "CRLF" -> <<"CR", "LF">>
      [] style = "CR" -> <<"CR">>

\* the kinds of page in a tree, n the tree's line break
Template(k, n) ==
    CASE k = 1 ->   \* no CDN reference, both anchors
             <<"X">> \o n \o <<"MAT", "REL">> \o n \o <<"SCR", "X", "ESCR">>
             \o n \o <<"EBODY">> \o n
      [] k = 2 ->   \* both anchors, <script right after the link's line
             <<"CDN">> \o n \o <<"MAT", "REL">> \o n \o <<"SCR", "X", "ESCR">>
             \o n \o <<"EBODY">> \o n
      [] k = 3 ->   \* head anchor only; closing tag, blank lines, <script
             <<"CDN">> \o n \o <<"MAT", "X", "REL">> \o n \o <<"SP", "SP", "X">>
             \o n \o <<"TR", "RC">> \o n \o n \o <<"SCR">>
      [] k = 4 ->   \* body anchor only
             <<"CDN">> \o n \o <<"X", "ESCR">> \o n \o <<"EBODY">>
      [] k = 5 ->   \* no anchor; closing tag, line break, indentation, <script
             <<"CDN">> \o n \o <<"X", "TR", "RC">> \o n \o <<"SP", "SP", "SCR">>
      [] k = 6 ->   \* resource marker present, both anchors, no script marker
             <<"CDN">> \o n \o <<"MAT", "REL">> \o n \o <<"DIVO", "RM", "RC">>
             \o n \o <<"SCR", "X", "ESCR">> \o n \o <<"EBODY">>
      [] k = 7 ->   \* two places where </script> is followed by </body>
             <<"CDN">> \o n \o <<"ESCR">> \o n \o <<"EBODY">> \o n
             \o <<"X", "ESCRU", "SP", "EBODYU">>
      [] k = 8 ->   \* body anchor before the head anchor
             <<"CDN", "ESCR">> \o n \o <<"EBODY">> \o n \o <<"MAT", "REL">>
             \o n \o <<"X">>
      [] k = 9 ->   \* body anchor inside the head anchor's match
             <<"CDN", "MAT", "X", "ESCR", "EBODY", "X", "REL">> \o n \o <<"X">>
      [] k = 10 ->  \* script marker present, body anchor, no head anchor
             <<"CDN">> \o n \o <<"DIVO", "SM", "RC">> \o n \o <<"X", "ESCR">>
             \o n \o <<"EBODY">>
      [] k = 11 ->  \* malformed adjacency, and a looser one further down
             <<"X">> \o n \o <<"TR", "RC">> \o n \o <<"SCR", "X">> \o n
             \o <<"DIVO", "RM", "RC", "SP">> \o n \o n \o <<"SP", "SCR">>

Kinds == 1..11

\* trees are taken up to the order of their files: os.walk promises none
Trees(kinds) ==
    {t \in [1..Len(Walk) -> kinds] :
        \A i \in 1..(Len(Walk) - 1) : t[i] <= t[i + 1]}

(***************************************************************************)
(* State                                                                   *)
(***************************************************************************)
VARIABLES
    os,          \* "posix" or "nt": fixes os.linesep
    disk,        \* file -> its content on disk
    pc,          \* "idle", "inject" (the loop of main), "fix" (the fixer's loop)
    html_files,  \* the injector's candidate list
    idx,         \* position of the running loop in its list
    updated, skipped, errors,   \* the injector's counters
    fixed,       \* the fixer's counter
    runs,        \* runs started
    faults,      \* I/O exceptions raised
    tool,        \* the script of the current or last run, "none" at first
    injRun,      \* injector runs started
    fixRun,      \* fixer runs started
    disk0,       \* the tree at the start
    before,      \* the tree at the start of the current or last run
    report,      \* file -> what the current or last run reported for it
    wrote        \* the files the current or last run wrote

vars == <<os, disk, pc, html_files, idx, updated, skipped, errors, fixed,
          runs, faults, tool, injRun, fixRun, disk0, before, report, wrote>>

\* the tree of kinds t saved with line break style
Tree(t, style) ==
    [f \in Files |->
        Template(t[CHOOSE i \in 1..Len(Walk) : Walk[i] = f], Brk(style))]

\* the state when the first script starts, for the trees of pages of kinds
\* saved with one of styles
Start(kinds, styles) ==
    /\ os \in {"posix", "nt"}
    /\ \E t \in Trees(kinds), style \in styles : disk = Tree(t, style)
    /\ pc = "idle"
    /\ html_files = <<>>
    /\ idx = 1
    /\ updated = 0 /\ skipped = 0 /\ errors = 0
    /\ fixed = 0
    /\ runs = 0
    /\ faults = 0
    /\ tool = "none"
    /\ injRun = 0
    /\ fixRun = 0
    /\ disk0 = disk
    /\ before = disk
    /\ report = [f \in Files |-> "none"]
    /\ wrote = {}

Init == Start(Kinds, Styles)

\* the trees for the runs in which I/O operations raise: what a page holds
\* decides no exception, so fewer kinds of page are told apart
InitIO == Start({1, 2, 4, 6, 7}, {"LF"})

(***************************************************************************)
(* The injector: main, find_html_files_with_tailwind, update_html_file     *)
(***************************************************************************)
\* the scan with the append outside the test for the CDN reference
CandidatesUnfiltered(tree, unreadable) ==
    SelectSeq(Walk, LAMBDA f : f \notin unreadable)

\* find_html_files_with_tailwind when reading the files of unreadable raises:
\* the exception is printed and the file is left out
Candidates(tree, unreadable) ==
    SelectSeq(Walk, LAMBDA f : f \notin unreadable /\ HasTailwind(ReadText(tree[f])))

\* main up to the loop: the scan, and the counters set to 0
Scan(unreadable) ==
    /\ pc = "idle"
    /\ runs < MaxRuns
    /\ html_files' = Candidates(disk, unreadable)
    /\ updated' = 0 /\ skipped' = 0 /\ errors' = 0
    /\ idx' = 1
    /\ pc' = "inject"
    /\ runs' = runs + 1
    /\ tool' = "inject"
    /\ injRun' = injRun + 1
    /\ before' = disk
    /\ report' = [f \in Files |-> "none"]
    /\ wrote' = {}
    /\ faults' = faults + Cardinality(unreadable)
    /\ UNCHANGED <<os, disk, fixed, fixRun, disk0>>

StartInjector == Scan({})

StartInjectorUnreadable ==
    \E unreadable \in SUBSET Files :
        /\ unreadable # {}
        /\ faults + Cardinality(unreadable) <= MaxFaults
        /\ Scan(unreadable)

\* the counters after one result of update_html_file
Tally(result) ==
    /\ updated' = IF result = "updated" THEN updated + 1 ELSE updated
    /\ skipped' = IF result = "skipped" THEN skipped + 1 ELSE skipped
    /\ errors' = IF result = "error" THEN errors + 1 ELSE errors

\* one turn of main's loop with what update_html_file reported and left on disk
Turn(f, rep, bytes) ==
    /\ report' = [report EXCEPT ![f] = rep]
    /\ disk' = [disk EXCEPT ![f] = bytes]
    /\ wrote' = IF bytes # disk[f] \/ rep = "updated" THEN wrote \cup {f} ELSE wrote
    /\ Tally(ResultOf(rep))
    /\ idx' = idx + 1
    /\ UNCHANGED <<os, pc, html_files, fixed, runs, tool, injRun, fixRun,
                   disk0, before>>

\* one turn of the loop, update_html_file without an exception
UpdateStep ==
    /\ pc = "inject"
    /\ idx <= Len(html_files)
    /\ LET f == html_files[idx]
           r == UpdateText(ReadText(disk[f]))
       IN  Turn(f, r.report,
                IF r.report = "updated" THEN WriteText(r.text, os) ELSE disk[f])
    /\ UNCHANGED faults

\* the exception of a read is not caught and ends the loop
UpdateReadErrorFatal ==
    /\ pc = "inject"
    /\ idx <= Len(html_files)
    /\ faults < MaxFaults
    /\ faults' = faults + 1
    /\ report' = [report EXCEPT ![html_files[idx]] = "error"]
    /\ pc' = "idle"
    /\ UNCHANGED <<os, disk, html_files, idx, updated, skipped, errors, fixed,
                   runs, tool, injRun, fixRun, disk0, before, wrote>>

\* one turn of the loop, reading the file raises
UpdateReadError ==
    /\ pc = "inject"
    /\ idx <= Len(html_files)
    /\ faults < MaxFaults
    /\ faults' = faults + 1
    /\ Turn(html_files[idx], "error", disk[html_files[idx]])

\* one turn of the loop, saving the file raises: open(path, 'w') raised and
\* the file is as it was, or the write raised after open emptied the file
UpdateWriteError ==
    /\ pc = "inject"
    /\ idx <= Len(html_files)
    /\ faults < MaxFaults
    /\ UpdateText(ReadText(disk[html_files[idx]])).report = "updated"
    /\ faults' = faults + 1
    /\ \E bytes \in {disk[html_files[idx]], <<>>} :
          Turn(html_files[idx], "error", bytes)

\* main after the loop: the summary is printed
Summary ==
    /\ pc = "inject"
    /\ idx > Len(html_files)
    /\ pc' = "idle"
    /\ UNCHANGED <<os, disk, html_files, idx, updated, skipped, errors, fixed,
                   runs, faults, tool, injRun, fixRun, disk0, before, report,
                   wrote>>

(***************************************************************************)
(* The fixer: main, fix_theme_resources_format                             *)
(***************************************************************************)
\* main up to the loop
StartFixer ==
    /\ pc = "idle"
    /\ runs < MaxRuns
    /\ fixed' = 0
    /\ idx' = 1
    /\ pc' = "fix"
    /\ runs' = runs + 1
    /\ tool' = "fix"
    /\ fixRun' = fixRun + 1
    /\ before' = disk
    /\ report' = [f \in Files |-> "none"]
    /\ wrote' = {}
    /\ UNCHANGED <<os, disk, html_files, updated, skipped, errors, faults,
                   injRun, disk0>>

\* what fix_theme_resources_format does to the text read from the file:
\*   "ok"     the adjacency is absent, the function returns False
\*   "fixed"  the substitution is applied and saved, it returns True
FixResult(content) ==
    IF ~HasAdjacency(content)
    THEN [text |-> content, report |-> "ok"]
    ELSE [text |-> FixText(content), report |-> "fixed"]

\* one turn of the fixer's loop with what the function reported and left
FixTurn(f, rep, bytes) ==
    /\ report' = [report EXCEPT ![f] = rep]
    /\ disk' = [disk EXCEPT ![f] = bytes]
    /\ wrote' = IF bytes # disk[f] \/ rep = "fixed" THEN wrote \cup {f} ELSE wrote
    /\ fixed' = IF rep = "fixed" THEN fixed + 1 ELSE fixed
    /\ idx' = idx + 1
    /\ UNCHANGED <<os, pc, html_files, updated, skipped, errors, runs, tool,
                   injRun, fixRun, disk0, before>>

\* one turn of the loop, fix_theme_resources_format without an exception
FixStep ==
    /\ pc = "fix"
    /\ idx <= Len(Walk)
    /\ LET f == Walk[idx]
           r == FixResult(ReadText(disk[f]))
       IN  FixTurn(f, r.report,
                   IF r.report = "fixed" THEN WriteText(r.text, os) ELSE disk[f])
    /\ UNCHANGED faults

\* one turn of the loop, reading the file raises: the function returns False
FixReadError ==
    /\ pc = "fix"
    /\ idx <= Len(Walk)
    /\ faults < MaxFaults
    /\ faults' = faults + 1
    /\ FixTurn(Walk[idx], "error", disk[Walk[idx]])

\* one turn of the loop, saving the file raises: the function returns False
FixWriteError ==
    /\ pc = "fix"
    /\ idx <= Len(Walk)
    /\ faults < MaxFaults
    /\ FixResult(ReadText(disk[Walk[idx]])).report = "fixed"
    /\ faults' = faults + 1
    /\ \E bytes \in {disk[Walk[idx]], <<>>} : FixTurn(Walk[idx], "error", bytes)

\* main after the loop: the counter is printed
FixSummary ==
    /\ pc = "fix"
    /\ idx > Len(Walk)
    /\ pc' = "idle"
    /\ UNCHANGED <<os, disk, html_files, idx, updated, skipped, errors, fixed,
                   runs, faults, tool, injRun, fixRun, disk0, before, report,
                   wrote>>

(***************************************************************************)
(* Specifications                                                          *)
(***************************************************************************)
\* the scripts run one after the other, no I/O operation raises
Next ==
    \/ StartInjector
    \/ UpdateStep
    \/ Summary
    \/ StartFixer
    \/ FixStep
    \/ FixSummary

Spec == Init /\ [][Next]_vars

\* the same, and reading or writing a file may raise
NextIO ==
    \/ StartInjector
    \/ StartInjectorUnreadable
    \/ UpdateStep
    \/ UpdateReadError
    \/ UpdateWriteError
    \/ Summary
    \/ StartFixer
    \/ FixStep
    \/ FixReadError
    \/ FixWriteError
    \/ FixSummary

SpecIO == InitIO /\ [][NextIO]_vars

(***************************************************************************)
(* Vocabulary of the properties                                            *)
(***************************************************************************)
\* the number of times token t occurs in s
Count(s, t) == Cardinality({i \in 1..Len(s) : s[i] = t})

\* the candidates the running or finished injector loop has dealt with
Processed == {html_files[i] : i \in 1..(idx - 1)}

\* an injector run is under way or was the last run; it has finished
InInjector == tool = "inject"
InjectorDone == tool = "inject" /\ pc = "idle"

\* a fixer run is under way or was the last run
InFixer == tool = "fix"

\* the anchors of a file as update_html_file meets them
HasHeadAnchor(bytes) == MaterialEnd(ReadText(bytes)) # 0
HasBodyAnchor(bytes) == BodyStart(ReadText(bytes)) # -1

\* the malformed adjacency in the bytes of a file: the closing text, one
\* line break (LF or CRLF), <script
MalformedOnDisk(bytes) == HasAdjacency(bytes)

(***************************************************************************)
(* C1                                                                      *)
(***************************************************************************)
\* C1: once one injector run is complete, every later injector run writes no
\* file and leaves every file's content as it found it, whatever anchors the
\* files hold.
C1_SecondRunWritesNothing ==
    (InInjector /\ injRun >= 2) => (wrote = {} /\ disk = before)

\* a second run has finished right after a first one on a tree with a page
\* that had the body anchor only and got the script snippet, a page with the
\* head anchor only, and a page without anchors
C1_Witness ==
    /\ InjectorDone /\ injRun = 2 /\ fixRun = 0
    /\ \E f, g, h \in Processed :
          /\ ~HasHeadAnchor(disk0[f]) /\ HasBodyAnchor(disk0[f])
          /\ Count(disk[f], "SM") = 1 /\ Count(disk0[f], "SM") = 0
          /\ HasHeadAnchor(disk0[g]) /\ ~HasBodyAnchor(disk0[g])
          /\ Count(disk[g], "RM") = 1
          /\ ~HasHeadAnchor(disk0[h]) /\ ~HasBodyAnchor(disk0[h])
          /\ disk[h] = disk0[h]

(***************************************************************************)
(* C2                                                                      *)
(***************************************************************************)
\* C2 as stated: on a run after the first, every candidate dealt with is
\* reported "skipped, already present".
C2_AllAlreadyPresent ==
    (InInjector /\ injRun >= 2) =>
        \A f \in Processed : report[f] = "present"

\* C2 amended: on a run after the first, every candidate dealt with is
\* skipped, none is updated or in error; it is reported "already present"
\* exactly when it holds the resource marker and "could not modify"
\* otherwise, and when the run is over every candidate has been dealt with.
C2_SecondRunSkips ==
    (InInjector /\ injRun >= 2) =>
        /\ \A f \in Processed :
              /\ report[f] \in {"present", "nomod"}
              /\ ResultOf(report[f]) = "skipped"
              /\ report[f] = "present" <=> Contains(disk[f], "RM")
        /\ pc = "idle" => Processed = {html_files[i] : i \in 1..Len(html_files)}
        /\ updated = 0 /\ errors = 0

\* a second run has reported "could not modify" for a page in which the first
\* run made the body-end insertion only, and "already present" for another
C2_Witness ==
    /\ InjectorDone /\ injRun = 2
    /\ \E f, g \in Processed :
          /\ report[f] = "nomod"
          /\ Count(disk[f], "SM") = 1 /\ Count(disk0[f], "SM") = 0
          /\ Count(disk[f], "RM") = 0
          /\ report[g] = "present"

(***************************************************************************)
(* C3                                                                      *)
(***************************************************************************)
\* C3: in an injector run a file without the CDN reference is no candidate
\* and is not written, a file with the resource marker is not written and
\* keeps its bytes, and so every file written had the CDN reference and no
\* resource marker when the run started.
C3_InjectorFrame ==
    InInjector =>
        \A f \in Files :
            /\ ~Contains(before[f], "CDN") =>
                  /\ \A i \in 1..Len(html_files) : html_files[i] # f
                  /\ f \notin wrote /\ disk[f] = before[f]
            /\ Contains(before[f], "RM") =>
                  f \notin wrote /\ disk[f] = before[f]
            /\ (f \in wrote \/ disk[f] # before[f]) =>
                  Contains(before[f], "CDN") /\ ~Contains(before[f], "RM")

\* a run has finished on a tree with a page that has both anchors and no CDN
\* reference, a page that has the resource marker, both anchors and no script
\* marker, and a page the run wrote
C3_Witness ==
    /\ InjectorDone
    /\ \E f, g, h \in Files :
          /\ ~Contains(before[f], "CDN")
          /\ HasHeadAnchor(before[f]) /\ HasBodyAnchor(before[f])
          /\ Contains(before[g], "CDN") /\ Contains(before[g], "RM")
          /\ HasHeadAnchor(before[g]) /\ HasBodyAnchor(before[g])
          /\ ~Contains(before[g], "SM")
          /\ report[g] = "present"
          /\ h \in wrote

(***************************************************************************)
(* C4                                                                      *)
(***************************************************************************)
\* the two snippets as update_html_file splices them in, in the bytes the
\* save gives them
ResourcesOnDisk == WriteText(<<"LF">> \o THEME_RESOURCES \o <<"LF">>, os)
ScriptOnDisk == WriteText(THEME_SCRIPT \o <<"LF", "SP", "SP">>, os)

\* result is orig with first spliced in at offset p and second at offset q
SplicedAt(orig, result, p, first, q, second) ==
    result = Prefix(orig, p) \o first \o Slice(orig, p + 1, q) \o second
             \o Suffix(orig, q)

\* deleting the two inserted snippets from result gives orig
IsPureInsertion(orig, result) ==
    \E p \in 0..Len(orig) : \E q \in p..Len(orig) :
        \/ SplicedAt(orig, result, p, ResourcesOnDisk, q, ScriptOnDisk)
        \/ SplicedAt(orig, result, p, ScriptOnDisk, q, ResourcesOnDisk)

\* a file C4 is about: both anchors, neither marker
BothAnchorsNoMarker(bytes) ==
    /\ HasHeadAnchor(bytes) /\ HasBodyAnchor(bytes)
    /\ ~Contains(bytes, "RM") /\ ~Contains(bytes, "SM")

\* C4: a candidate with both anchors and neither marker is reported updated,
\* then holds each marker exactly once, and deleting the inserted text gives
\* back its original content.
C4_PureInsertion ==
    InInjector =>
        \A f \in Processed :
            BothAnchorsNoMarker(before[f]) =>
                /\ report[f] = "updated"
                /\ Count(disk[f], "RM") = 1 /\ Count(disk[f], "SM") = 1
                /\ IsPureInsertion(before[f], disk[f])

(***************************************************************************)
(* C5                                                                      *)
(***************************************************************************)
\* the tree of the scenario: (a) without the CDN reference, (b) with it,
\* without markers and with both anchors, (c) with it and the resource marker
ScenarioFiles(tree, a, b, c) ==
    /\ {a, b, c} = Files /\ a # b /\ b # c /\ a # c
    /\ ~Contains(tree[a], "CDN")
    /\ Contains(tree[b], "CDN") /\ BothAnchorsNoMarker(tree[b])
    /\ Contains(tree[c], "CDN") /\ Contains(tree[c], "RM")

\* what one run leaves of the scenario, with nSkipped in the skipped counter
ScenarioOutcome(nSkipped) ==
    \A a, b, c \in Files :
        (InjectorDone /\ ScenarioFiles(before, a, b, c)) =>
            /\ disk[a] = before[a] /\ disk[c] = before[c]
            /\ Count(disk[b], "RM") = 1 /\ Count(disk[b], "SM") = 1
            /\ report[b] = "updated"
            /\ updated = 1 /\ skipped = nSkipped /\ errors = 0

\* C5 as stated: the run ends with updated=1, skipped=2, errors=0.
C5_SkippedTwo == ScenarioOutcome(2)

\* C5 amended: the run leaves (a) and (c) unchanged, makes both insertions in
\* (b) and ends with updated=1, skipped=1, errors=0: (a) is no candidate and
\* is not counted.
C5_SkippedOne == ScenarioOutcome(1)

\* a run on the scenario's tree has finished
C5_Witness ==
    /\ InjectorDone
    /\ \E a, b, c \in Files :
          /\ ScenarioFiles(before, a, b, c)
          /\ report[a] = "none" /\ report[b] = "updated"
          /\ report[c] = "present"

(***************************************************************************)
(* C6                                                                      *)
(***************************************************************************)
\* C6: the fixer writes a file, counts it as corrected or changes its bytes
\* only if the file held the malformed adjacency (with LF or CRLF); every
\* other file is reported OK.
C6_FixerFrame ==
    InFixer =>
        \A f \in Files :
            (report[f] # "none" /\ ~MalformedOnDisk(before[f])) =>
                /\ report[f] = "ok"
                /\ f \notin wrote
                /\ disk[f] = before[f]

(***************************************************************************)
(* C7                                                                      *)
(***************************************************************************)
\* the blanks between a closing tag at index i and the <script after them
GapEnd(s, i) == SkipSpace(s, i + 1)
HasGap(s, i) ==
    /\ i + 1 <= Len(s)
    /\ IsThemeResources(s[i]) /\ s[i + 1] = "RC"
    /\ GapEnd(s, i) < Len(s) /\ s[GapEnd(s, i) + 1] = "SCR"

\* s from index i on without the blanks between closing tags and <script
RECURSIVE OutsideFrom(_, _)
OutsideFrom(s, i) ==
    IF i > Len(s) THEN <<>>
    ELSE IF HasGap(s, i)
         THEN <<s[i], "RC", "SCR">> \o OutsideFrom(s, GapEnd(s, i) + 2)
         ELSE <<s[i]>> \o OutsideFrom(s, i + 1)

Outside(s) == OutsideFrom(s, 1)

\* one line break and four spaces
IsFixedGap(gap) ==
    \/ gap = <<"LF", "SP", "SP", "SP", "SP">>
    \/ gap = <<"CR", "LF", "SP", "SP", "SP", "SP">>

\* every closing tag that a line break separates from <script is followed by
\* exactly one line break and four spaces
WellSpaced(s) ==
    \A i \in 1..Len(s) :
        (HasGap(s, i) /\ \E k \in (i + 2)..GapEnd(s, i) : s[k] \in {"LF", "CR"})
            => IsFixedGap(Slice(s, i + 2, GapEnd(s, i)))

\* C7: a file that held the malformed adjacency is counted as corrected, no
\* longer holds it, has one line break and four spaces between the closing
\* tag and <script, and is unchanged outside the blanks between them.
C7_FixOnlyTheGap ==
    InFixer =>
        \A f \in Files :
            (report[f] # "none" /\ MalformedOnDisk(before[f])) =>
                /\ report[f] = "fixed"
                /\ ~MalformedOnDisk(disk[f])
                /\ WellSpaced(disk[f])
                /\ Outside(disk[f]) = Outside(before[f])

(***************************************************************************)
(* C8                                                                      *)
(***************************************************************************)
\* the script snippet stands right before the </body> at index i + 5, and no
\* place where </script> is followed by </body> comes after it
ScriptAtLastPlace(text) ==
    \E i \in 1..(Len(text) - 5) :
        /\ text[i] = "SM"
        /\ Slice(text, i + 1, i + 4) = <<"RC", "LF", "SP", "SP">>
        /\ IsBodyClose(text[i + 5])
        /\ \A j \in BodyMatches(text) : j < i

\* C8: in a candidate without markers that has more than one place where
\* </script> is followed by </body>, the script snippet is inserted once,
\* right before the </body> of the last such place.
C8_LastPlace ==
    InInjector =>
        \A f \in Processed :
            ( /\ Cardinality(BodyMatches(ReadText(before[f]))) > 1
              /\ ~Contains(before[f], "SM") /\ ~Contains(before[f], "RM") ) =>
                /\ Count(disk[f], "SM") = 1
                /\ ScriptAtLastPlace(ReadText(disk[f]))

(***************************************************************************)
(* C9                                                                      *)
(***************************************************************************)
\* C9: when reading or writing candidates raises, each such candidate is
\* reported as an error and counted once in errors, the loop goes on to the
\* next candidate, and when the summary has been printed updated + skipped +
\* errors is the number of candidates.
C9_ErrorsNonFatal ==
    InInjector =>
        /\ idx <= Len(html_files) + 1
        /\ \A f \in Processed : report[f] # "none"
        /\ errors = Cardinality({f \in Processed : report[f] = "error"})
        /\ updated + skipped + errors = idx - 1
        /\ pc = "idle" => updated + skipped + errors = Len(html_files)

\* a run has finished in which the first of three candidates was in error
\* and a later one was updated
C9_Witness ==
    /\ InjectorDone
    /\ Len(html_files) = 3
    /\ report[html_files[1]] = "error"
    /\ report[html_files[3]] = "updated"
    /\ errors >= 1 /\ updated >= 1

(***************************************************************************)
(* C10                                                                     *)
(***************************************************************************)
\* the number of times each marker occurs in a file
Markers(bytes) == <<Count(bytes, "RM"), Count(bytes, "SM")>>

\* C10: whatever runs of the two scripts have taken place, in a run no
\* marker's count goes down, a count goes up only in an injector run and
\* only from 0 to 1, over all runs a count is at most one above its value at
\* the start, and an injector run leaves a file with the resource marker as
\* it found it.
C10_MarkerCounts ==
    \A f \in Files : \A m \in 1..2 :
        /\ Markers(disk0[f])[m] <= Markers(before[f])[m]
        /\ Markers(before[f])[m] <= Markers(disk[f])[m]
        /\ Markers(disk[f])[m] <= Markers(disk0[f])[m] + 1
        /\ Markers(disk[f])[m] > Markers(before[f])[m] =>
              InInjector /\ Markers(before[f])[m] = 0
        /\ (InInjector /\ Contains(before[f], "RM")) => disk[f] = before[f]

\* injector, fixer, injector have run: a page got both snippets in the first
\* run, the fixer put the line break and four spaces after the resource
\* snippet, and the second injector run has dealt with the page
C10_Witness ==
    /\ InjectorDone /\ injRun = 2 /\ fixRun = 1
    /\ \E f \in Processed :
          /\ Markers(disk0[f]) = <<0, 0>> /\ Markers(disk[f]) = <<1, 1>>
          /\ \E i \in 1..(Len(ReadText(disk[f])) - 6) :
                Slice(ReadText(disk[f]), i, i + 6)
                    = <<"RM", "RC", "LF", "SP", "SP", "SP", "SP">>

====
